---- MODULE Spec2Model ----
(***************************************************************************)
(* Stepped-concurrency, watermark-checkpointed extraction engine of        *)
(* src/lambda-deployment/github_issue_extractor.py (GitHubIssueExtractor). *)
(*                                                                         *)
(* Watermark tokens are ISO-8601 UTC strings of one fixed width, which the *)
(* code compares as strings; for such strings the lexicographic order is   *)
(* the chronological order, so a token is modelled as a natural number and *)
(* DEFAULT_START_DATE as the smallest one.                                 *)
(***************************************************************************)
EXTENDS Integers, Sequences, FiniteSets, TLC

(***************************************************************************)
(* Program constants (class attributes of GitHubIssueExtractor).           *)
(***************************************************************************)
DEFAULT_START_DATE == 0
STEP_SIZE == 3
MAX_WORKERS == 3
PAGE_SIZE == 100
MAX_RETRIES == 5
BASE_DELAY == 1
MAX_DELAY == 32

(***************************************************************************)
(* Bounds of the model.                                                    *)
(***************************************************************************)
\* The upstream resource holds NumBlocks groups of records; group b holds
\* records whose updated_at is b.  All groups are full pages but the last.
NumBlocks == 5
\* Number of records of the last (short) group; below PAGE_SIZE.
LastBlockCount == 37
\* No window reaching beyond this page number is launched.
MaxPage == 6
\* Retryable responses (rate limit, 5xx, transport error) the upstream
\* resource produces within one batch.
MaxTransient == 1
\* Calls of flush_buffer_to_csv with records made on one extractor from
\* outside a run.
MaxFlushes == 2

Pages == 1..MaxPage

Min(a, b) == IF a < b THEN a ELSE b

(***************************************************************************)
(* The upstream resource: GET issues?since=w&sort=updated&direction=asc    *)
(* &per_page=PAGE_SIZE&page=p.  The result set of a query is the records   *)
(* with updated_at >= since in ascending order of updated_at, cut in pages.*)
(***************************************************************************)
FirstBlock(since) == IF since > 1 THEN since ELSE 1

BlockOf(since, p) == FirstBlock(since) + p - 1

BlockCount(b) ==
    IF b < NumBlocks THEN PAGE_SIZE
    ELSE IF b = NumBlocks THEN LastBlockCount
    ELSE 0

\* What fetch_page_data returns: None, or a list of records.  A list is
\* described by the page it came from, its length n and the updated_at
\* its records carry (ts); n = 0 is the empty list.
ReturnNone == [none |-> TRUE, page |-> 0, n |-> 0, ts |-> 0]

EmptyList == [none |-> FALSE, page |-> 0, n |-> 0, ts |-> 0]

\* response.json() of a 200 response to the request for page p.
UpstreamPage(since, p) ==
    LET b == BlockOf(since, p) IN
    IF BlockCount(b) = 0 THEN EmptyList
    ELSE [none |-> FALSE, page |-> p, n |-> BlockCount(b), ts |-> b]

(***************************************************************************)
(* HTTP outcomes of one request.  TransportError stands for an exception   *)
(* raised by requests.get (timeout, connection reset).                     *)
(***************************************************************************)
TransportError == 0

Statuses == {200, 404, 422, 429, 403, 500, 503, 400, 401}

Responses == Statuses \cup {TransportError}

\* A Retry-After header whose value float() does not parse (an HTTP-date).
HttpDate == -1

\* The Retry-After header of a response: absent, a number of seconds, or an
\* HTTP-date.
RetryAfterHeaders == {<<>>, <<0>>, <<5>>, <<HttpDate>>}

\* float(response.headers["Retry-After"]) raises ValueError.
FloatRaises(header) == header[1] = HttpDate

\* random.uniform(0, 1): the two ends of the interval.
Jitters == {0, 1}

\* The decision with 422 left out of the end-of-data statuses: not what the
\* code does.
ClassifyEndOn404Only(r) ==
    IF r = TransportError THEN "exception"
    ELSE IF r = 200 THEN "success"
    ELSE IF r = 404 THEN "end"
    ELSE IF r \in {429, 403} THEN "rate_limit"
    ELSE IF r >= 500 THEN "server_error"
    ELSE "fatal"

\* The decision with every status from 400 on that is not named retried as
\* a server error: not what the code does.
ClassifyRetryClientErrors(r) ==
    IF r = TransportError THEN "exception"
    ELSE IF r = 200 THEN "success"
    ELSE IF r \in {404, 422} THEN "end"
    ELSE IF r \in {429, 403} THEN "rate_limit"
    ELSE IF r >= 400 THEN "server_error"
    ELSE "fatal"

\* The decision with 403 taken as a client error: not what the code does.
ClassifyForbiddenFatal(r) ==
    IF r = TransportError THEN "exception"
    ELSE IF r = 200 THEN "success"
    ELSE IF r \in {404, 422} THEN "end"
    ELSE IF r = 429 THEN "rate_limit"
    ELSE IF r >= 500 THEN "server_error"
    ELSE "fatal"

\* The decision fetch_page_data takes on one response.
Classify(r) ==
    IF r = TransportError THEN "exception"
    ELSE IF r = 200 THEN "success"
    ELSE IF r \in {404, 422} THEN "end"
    ELSE IF r \in {429, 403} THEN "rate_limit"
    ELSE IF r >= 500 THEN "server_error"
    ELSE "fatal"

IsRetryable(r) == Classify(r) \in {"exception", "rate_limit", "server_error"}

\* The Retry-After header taken as the time to sleep, without the second
\* added to it: not what the code does.
SleepTimeHintAsIs(r, current_delay, header, jitter) ==
    IF Classify(r) = "rate_limit"
    THEN IF header = <<>> THEN current_delay + jitter
         ELSE IF FloatRaises(header) THEN current_delay
         ELSE header[1]
    ELSE current_delay

\* The time slept after a retryable response.  When float() raises on the
\* header the except branch sleeps current_delay.
SleepTime(r, current_delay, header, jitter) ==
    IF Classify(r) = "rate_limit"
    THEN IF header = <<>> THEN current_delay + jitter
         ELSE IF FloatRaises(header) THEN current_delay
         ELSE header[1] + 1
    ELSE current_delay

\* The delay set back to BASE_DELAY after a sleep: not what the code does.
NextDelayReset(current_delay) == BASE_DELAY

\* The delay raised by BASE_DELAY in place of doubled: not what the code does.
NextDelayLinear(current_delay) == Min(current_delay + BASE_DELAY, MAX_DELAY)

\* current_delay = min(current_delay * 2, self.MAX_DELAY)
NextDelay(current_delay) == Min(current_delay * 2, MAX_DELAY)

(***************************************************************************)
(* State.                                                                  *)
(***************************************************************************)
VARIABLES
    pc,                    \* position of the controller in run_extraction
    stateObject,           \* S3 object issue_state.json: <<>> or <<token>>
    watermark,             \* run_extraction: watermark read at run start
    current_start_page,
    total_saved_count,
    global_max_timestamp,
    batch_file_counter,    \* self._batch_file_counter
    batch_data,            \* lists extended into batch_data
    batch_has_error,
    is_end_of_data,
    futures,               \* page -> state of the task submitted for it
    pending,               \* futures as_completed has not yielded yet
    result,                \* the dictionary run_extraction returned
    transient,             \* retryable answers the upstream gave in this batch
    atStart,               \* history: token in the store when the run started
    atLaunch,              \* history: store and global max when the batch was launched
    lastWritten,           \* history: what flush returned for this batch, <<>> if not called
    writtenTotal,          \* history: sum of what flush returned in this run
    flushed,               \* history: lists written to the sink in this run
    sinceCommit,           \* history: batches flushed since the last stored commit
    sink,                  \* S3 objects data/issues_<today>_batch_NNN.csv: the NNN present
    flushCalls,            \* history: the calls of flush_buffer_to_csv of this run
    call,                  \* history of one call of fetch_page_data
    lastCall,              \* history: <<>> or the latest call of a method with its outcome
    lastCommit             \* history: <<>> or what the latest save of a batch of this run returned

vars == <<pc, stateObject, watermark, current_start_page,
          total_saved_count, global_max_timestamp, batch_file_counter,
          batch_data, batch_has_error, is_end_of_data, futures, pending,
          result, transient, atStart, atLaunch, lastWritten, writtenTotal,
          flushed, sinceCommit, sink, flushCalls, call, lastCall, lastCommit>>

\* What a step of a worker leaves alone.
ctlVars == <<pc, stateObject, watermark, current_start_page,
             total_saved_count, global_max_timestamp, batch_file_counter,
             batch_data, batch_has_error, is_end_of_data, pending,
             result, atStart, atLaunch, lastWritten, writtenTotal, flushed,
             sinceCommit, sink, flushCalls, lastCall, lastCommit>>

\* No request has been issued, nothing has been slept, no response received.
NoCall == [requests |-> 0, sleeps |-> <<>>, response |-> <<>>]

\* since: the watermark argument of the call, held while the call runs.
NoTask == [st |-> "none", since |-> DEFAULT_START_DATE, attempt |-> 0,
           current_delay |-> 0, ret |-> ReturnNone]

NoResult == [returned |-> FALSE, total_saved |-> 0, final_watermark |-> 0]

\* The value a reader of the Watermark Store obtains.
Persisted == IF stateObject = <<>> THEN DEFAULT_START_DATE ELSE stateObject[1]

RECURSIVE SumN(_)
SumN(S) ==
    IF S = {} THEN 0
    ELSE LET x == CHOOSE y \in S : TRUE IN x.n + SumN(S \ {x})

\* len(batch_data)
Len_(lists) == SumN(lists)

\* df_temp["updated_at"].min(): not what the code computes.
MinUpdatedAt(lists) ==
    CHOOSE t \in {x.ts : x \in lists} : \A x \in lists : t <= x.ts

\* df_temp["updated_at"].max()
MaxUpdatedAt(lists) ==
    CHOOSE t \in {x.ts : x \in lists} : \A x \in lists : x.ts <= t

Init ==
    /\ pc = "idle"
    /\ stateObject = <<>>
    /\ watermark = DEFAULT_START_DATE
    /\ current_start_page = 1
    /\ total_saved_count = 0
    /\ global_max_timestamp = DEFAULT_START_DATE
    /\ batch_file_counter = 0
    /\ batch_data = {}
    /\ batch_has_error = FALSE
    /\ is_end_of_data = FALSE
    /\ futures = [p \in Pages |-> NoTask]
    /\ pending = {}
    /\ result = NoResult
    /\ transient = 0
    /\ atStart = DEFAULT_START_DATE
    /\ atLaunch = [store |-> <<>>, gmax |-> DEFAULT_START_DATE]
    /\ lastWritten = <<>>
    /\ writtenTotal = 0
    /\ flushed = {}
    /\ sinceCommit = 0
    /\ sink = {}
    /\ flushCalls = <<>>
    /\ call = NoCall
    /\ lastCall = <<>>
    /\ lastCommit = <<>>

(***************************************************************************)
(* Watermark Store.                                                        *)
(***************************************************************************)
\* get_last_sync_time: the stored token, or the default when the object is
\* absent (NoSuchKey) or the read fails.
get_last_sync_time(obj, readFails) ==
    IF obj = <<>> \/ readFails THEN DEFAULT_START_DATE ELSE obj[1]

\* get_last_sync_time with "except NoSuchKey" only: not what the code does.
GetRaisesOnReadFailure(obj, readFails) == readFails

\* An exception leaves get_last_sync_time: the read is inside try, and
\* "except Exception" follows "except NoSuchKey".
GetRaises(obj, readFails) == FALSE

\* save_last_sync_time lets the exception of put_object through: not what
\* the code does.
SaveRaisesOnPutFailure(putFails) == putFails

\* An exception leaves save_last_sync_time: put_object is inside try.
SaveRaises(putFails) == FALSE

\* What save_last_sync_time returns.
SaveReturns(putFails) == ~putFails

\* The call save_last_sync_time(timestamp) made with the store holding obj.
SaveCall(obj, timestamp, putFails) ==
    [op |-> "save_last_sync_time", arg |-> timestamp, fails |-> putFails,
     before |-> obj, ret |-> SaveReturns(putFails),
     raised |-> SaveRaises(putFails)]

\* The state object after save_last_sync_time(timestamp).
save_last_sync_time(obj, timestamp, putFails) ==
    IF putFails THEN obj ELSE <<timestamp>>

(***************************************************************************)
(* Sink Writer.                                                            *)
(***************************************************************************)
\* What flush_buffer_to_csv returns.
flush_buffer_to_csv(lists, putFails) ==
    IF Len_(lists) = 0 THEN 0
    ELSE IF putFails THEN 0
    ELSE Len_(lists)

\* flush_buffer_to_csv lets the exception of put_object through: not what
\* the code does.
FlushRaisesOnPutFailure(lists, putFails) == Len_(lists) > 0 /\ putFails

\* An exception leaves flush_buffer_to_csv: put_object is inside try.
FlushRaises(lists, putFails) == FALSE

\* self._batch_file_counter goes up only when the upload succeeded: not what
\* the code does.
CounterAfterUpload(counter, lists, putFails) ==
    IF Len_(lists) = 0 \/ putFails THEN counter ELSE counter + 1

\* self._batch_file_counter incremented before "if not data_buffer": not
\* what the code does.
CounterAlwaysUp(counter, lists, putFails) == counter + 1

\* self._batch_file_counter after flush_buffer_to_csv(lists).
CounterAfterFlush(counter, lists, putFails) ==
    IF Len_(lists) = 0 THEN counter ELSE counter + 1

\* s3_key: the name is made of the date of the run, which is the same for
\* all the names of a run, and of the counter NNN, which stands for the name.
S3Key(counter) == counter

\* The objects of the sink after flush_buffer_to_csv(lists), counter being
\* self._batch_file_counter on entry.
SinkAfterFlush(objects, counter, lists, putFails) ==
    IF Len_(lists) = 0 \/ putFails THEN objects
    ELSE objects \cup {S3Key(CounterAfterFlush(counter, lists, putFails))}

(***************************************************************************)
(* Extraction Controller: run_extraction.                                  *)
(***************************************************************************)
\* global_max_timestamp = DEFAULT_START_DATE: not what the code does.
InitialGlobalMaxDefault(w) == DEFAULT_START_DATE

\* global_max_timestamp = watermark
InitialGlobalMax(w) == w

\* newDay: datetime.now() gives a date later than that of the run before,
\* so that no object of the sink carries the date of this run.
StartRun(readFails, newDay) ==
    /\ pc \in {"idle", "returned", "raised"}
    /\ watermark' = get_last_sync_time(stateObject, readFails)
    /\ current_start_page' = 1
    /\ total_saved_count' = 0
    /\ global_max_timestamp' = InitialGlobalMax(watermark')
    /\ batch_file_counter' = 0
    /\ batch_data' = {}
    /\ batch_has_error' = FALSE
    /\ is_end_of_data' = FALSE
    /\ futures' = [p \in Pages |-> NoTask]
    /\ pending' = {}
    /\ result' = NoResult
    /\ transient' = 0
    /\ atStart' = Persisted
    /\ atLaunch' = [store |-> stateObject, gmax |-> global_max_timestamp']
    /\ lastWritten' = <<>>
    /\ writtenTotal' = 0
    /\ flushed' = {}
    /\ sinceCommit' = 0
    /\ sink' = IF newDay THEN {} ELSE sink
    /\ flushCalls' = <<>>
    /\ lastCall' = <<>>
    /\ lastCommit' = <<>>
    /\ pc' = IF GetRaises(stateObject, readFails) THEN "raised" ELSE "launch"
    /\ UNCHANGED <<stateObject, call>>

\* range(current_start_page, current_start_page + STEP_SIZE + 1): not what
\* the code does.
PagesToFetchInclusive(start) == start..(start + STEP_SIZE)

\* pages_to_fetch
PagesToFetch(start) == start..(start + STEP_SIZE - 1)

\* The watermark advanced so far passed to fetch_page_data: not what the
\* code does.
SinceArgumentAdvanced(w, global_max) == global_max

\* The second argument of fetch_page_data in executor.submit.
SinceArgument(w, global_max) == w

\* executor.submit(self.fetch_page_data, p, watermark): a work item in the
\* queue of the pool.
SubmittedTask ==
    [NoTask EXCEPT !.st = "queued",
                   !.since = SinceArgument(watermark, global_max_timestamp)]

LaunchBatch ==
    /\ pc = "launch"
    /\ PagesToFetch(current_start_page) \subseteq Pages
    /\ batch_data' = {}
    /\ batch_has_error' = FALSE
    /\ is_end_of_data' = FALSE
    /\ futures' = [p \in Pages |->
                     IF p \in PagesToFetch(current_start_page)
                     THEN SubmittedTask
                     ELSE futures[p]]
    /\ pending' = PagesToFetch(current_start_page)
    /\ transient' = 0
    /\ atLaunch' = [store |-> stateObject, gmax |-> global_max_timestamp]
    /\ lastWritten' = <<>>
    /\ lastCall' = <<>>
    /\ pc' = "await"
    /\ UNCHANGED lastCommit
    /\ UNCHANGED <<stateObject, watermark, current_start_page,
                   total_saved_count, global_max_timestamp,
                   batch_file_counter, result, atStart, writtenTotal,
                   flushed, sinceCommit, sink, flushCalls, call>>

(***************************************************************************)
(* Worker pool (ThreadPoolExecutor): a free worker takes a queued work     *)
(* item and runs fetch_page_data in it.  Futures of earlier windows stay   *)
(* in the map as the record of how their pages settled.                    *)
(***************************************************************************)
InFlight == {p \in Pages : futures[p].st \in {"http", "sleep"}}

\* Pages for which a task has been submitted in this run.
Requested == {p \in Pages : futures[p].st # "none"}

\* A sleeping task keeps the whole pool from taking work items: not what
\* the code does.
WorkerFreeNoneSleeping ==
    /\ Cardinality(InFlight) < MAX_WORKERS
    /\ \A p \in Pages : futures[p].st # "sleep"

\* A worker thread of the pool is free to take a work item.
WorkerFree == Cardinality(InFlight) < MAX_WORKERS

\* fetch_page_data starts: current_delay = BASE_DELAY, attempt 1.
TaskStart(p) ==
    /\ futures[p].st = "queued"
    /\ WorkerFree
    /\ futures' = [futures EXCEPT ![p] =
                     [@ EXCEPT !.st = "http", !.attempt = 1,
                               !.current_delay = BASE_DELAY]]
    /\ UNCHANGED <<transient, call>>
    /\ UNCHANGED ctlVars

\* A settled task: the future holds what fetch_page_data returned, the
\* locals of the call are gone.
Settled(ret) == [NoTask EXCEPT !.st = "done", !.ret = ret]

\* The task of page p after its request got response r.
AfterResponse(t, p, r) ==
    CASE Classify(r) = "success" -> Settled(UpstreamPage(t.since, p))
      [] Classify(r) = "end" -> Settled(EmptyList)
      [] Classify(r) = "fatal" -> Settled(ReturnNone)
      [] OTHER -> [t EXCEPT !.st = "sleep"]

Respond(p, r) ==
    /\ futures[p].st = "http"
    /\ futures' = [futures EXCEPT ![p] = AfterResponse(@, p, r)]
    /\ transient' = IF IsRetryable(r) THEN transient + 1 ELSE transient
    /\ UNCHANGED call
    /\ UNCHANGED ctlVars

\* range(1, self.MAX_RETRIES + 2): not what the code does.
AfterSleepOneMore(t) ==
    IF t.attempt < MAX_RETRIES + 1
    THEN [t EXCEPT !.st = "http", !.attempt = @ + 1,
                   !.current_delay = NextDelay(@)]
    ELSE [NoTask EXCEPT !.st = "done", !.ret = ReturnNone]

\* The task after time.sleep returns: the delay doubles and the for loop
\* goes to its next attempt, or ends and None is returned.
AfterSleep(t) ==
    IF t.attempt < MAX_RETRIES
    THEN [t EXCEPT !.st = "http", !.attempt = @ + 1,
                   !.current_delay = NextDelay(@)]
    ELSE Settled(ReturnNone)

Wake(p) ==
    /\ futures[p].st = "sleep"
    /\ futures' = [futures EXCEPT ![p] = AfterSleep(@)]
    /\ UNCHANGED <<transient, call>>
    /\ UNCHANGED ctlVars

(***************************************************************************)
(* Batch aggregation: the body of "for future in as_completed(futures)".   *)
(***************************************************************************)
\* "batch_has_error = data is None": not what the code does.
AggErrorLastWins(has_error, data) == data.none

\* batch_has_error after the loop body ran on data.
AggError(has_error, data) == has_error \/ data.none

\* "batch_data = data" in place of batch_data.extend(data): not what the
\* code does.
AggDataReplaced(lists, data) ==
    IF ~data.none /\ data.n > 0 THEN {data} ELSE lists

\* batch_data after the loop body ran on data.
AggData(lists, data) ==
    IF ~data.none /\ data.n > 0 THEN lists \cup {data} ELSE lists

\* The loop body without "if len(data) < self.PAGE_SIZE": not what the code does.
AggEndIgnoringShortPage(is_end, data) ==
    IF data.none THEN is_end
    ELSE IF data.n > 0 THEN is_end
    ELSE TRUE

\* The loop body with is_end_of_data set for a failed page: not what the
\* code does.
AggEndOnFailure(is_end, data) ==
    IF data.none THEN TRUE
    ELSE IF data.n > 0 THEN (is_end \/ data.n < PAGE_SIZE)
    ELSE TRUE

\* is_end_of_data after the loop body ran on data.
AggEnd(is_end, data) ==
    IF data.none THEN is_end
    ELSE IF data.n > 0 THEN (is_end \/ data.n < PAGE_SIZE)
    ELSE TRUE

Collect(p) ==
    /\ pc = "await"
    /\ p \in pending
    /\ futures[p].st = "done"
    /\ pending' = pending \ {p}
    /\ batch_has_error' = AggError(batch_has_error, futures[p].ret)
    /\ batch_data' = AggData(batch_data, futures[p].ret)
    /\ is_end_of_data' = AggEnd(is_end_of_data, futures[p].ret)
    /\ UNCHANGED <<pc, stateObject, watermark, current_start_page,
                   total_saved_count, global_max_timestamp,
                   batch_file_counter, futures, result, transient, atStart,
                   atLaunch, lastWritten, writtenTotal, flushed, sinceCommit,
                   sink, flushCalls, call, lastCall, lastCommit>>

\* The for loop ends although a future has not been yielded: not what
\* as_completed does.
BarrierResolvedEarly(pend) == Cardinality(pend) < STEP_SIZE

\* as_completed is exhausted: every future of the batch has been yielded.
BarrierResolved(pend) == pend = {}

\* "Process batch": flush, or the branch of a batch without data.
FlushBatch(putFails) ==
    /\ pc = "await"
    /\ BarrierResolved(pending)
    /\ IF batch_data # {}
       THEN /\ batch_file_counter' =
                   CounterAfterFlush(batch_file_counter, batch_data, putFails)
            /\ sink' = SinkAfterFlush(sink, batch_file_counter, batch_data,
                                      putFails)
            /\ lastWritten' = <<flush_buffer_to_csv(batch_data, putFails)>>
            /\ flushCalls' = Append(flushCalls,
                                    [start |-> current_start_page,
                                     arg |-> batch_data,
                                     key |-> S3Key(batch_file_counter'),
                                     ret |-> lastWritten'[1]])
            /\ writtenTotal' = writtenTotal + lastWritten'[1]
            /\ flushed' = IF putFails THEN flushed ELSE flushed \cup batch_data
            /\ sinceCommit' = sinceCommit + 1
            /\ total_saved_count' = total_saved_count + Len_(batch_data)
            /\ pc' = IF FlushRaises(batch_data, putFails)
                      THEN "raised" ELSE "commit"
            /\ UNCHANGED is_end_of_data
       ELSE /\ is_end_of_data' = (is_end_of_data \/ ~batch_has_error)
            /\ pc' = "check"
            /\ UNCHANGED <<batch_file_counter, lastWritten, writtenTotal,
                           flushed, sinceCommit, total_saved_count, sink,
                           flushCalls>>
    /\ UNCHANGED <<stateObject, watermark, current_start_page,
                   global_max_timestamp, batch_data, batch_has_error,
                   futures, pending, result, transient, atStart, atLaunch,
                   call, lastCall, lastCommit>>

\* The watermark update without "if not batch_has_error": not what the code does.
ShouldCommitIgnoringErrors(has_error, batch_max_ts, global_max) ==
    batch_max_ts > global_max

\* "current_batch_max_ts >= global_max_timestamp": not what the code does.
ShouldCommitOrEqual(has_error, batch_max_ts, global_max) ==
    ~has_error /\ batch_max_ts >= global_max

\* The condition of the "atomic watermark update".
ShouldCommit(has_error, batch_max_ts, global_max) ==
    ~has_error /\ batch_max_ts > global_max

CommitWatermark(putFails) ==
    /\ pc = "commit"
    /\ LET current_batch_max_ts == MaxUpdatedAt(batch_data) IN
       IF ShouldCommit(batch_has_error, current_batch_max_ts, global_max_timestamp)
       THEN /\ global_max_timestamp' = current_batch_max_ts
            /\ stateObject' = save_last_sync_time(stateObject,
                                                  current_batch_max_ts, putFails)
            /\ sinceCommit' = IF putFails THEN sinceCommit ELSE 0
            /\ lastCall' = <<SaveCall(stateObject, current_batch_max_ts,
                                      putFails)>>
            /\ lastCommit' = <<SaveReturns(putFails)>>
            /\ pc' = IF SaveRaises(putFails) THEN "raised" ELSE "check"
       ELSE /\ pc' = "check"
            /\ UNCHANGED <<global_max_timestamp, stateObject, sinceCommit,
                           lastCall, lastCommit>>
    /\ UNCHANGED <<watermark, current_start_page, total_saved_count,
                   batch_file_counter, batch_data, batch_has_error,
                   is_end_of_data, futures, pending, result, transient,
                   atStart, atLaunch, lastWritten, writtenTotal, flushed,
                   sink, flushCalls, call>>

\* "if is_end_of_data or batch_has_error: break": not what the code does.
CheckTerminationStopsOnFailure ==
    /\ pc = "check"
    /\ IF is_end_of_data \/ batch_has_error
       THEN /\ pc' = "final"
            /\ UNCHANGED current_start_page
       ELSE /\ current_start_page' = current_start_page + STEP_SIZE
            /\ pc' = "launch"
    /\ UNCHANGED <<stateObject, watermark, total_saved_count,
                   global_max_timestamp, batch_file_counter, batch_data,
                   batch_has_error, is_end_of_data, futures, pending, result,
                   transient, atStart, atLaunch, lastWritten, writtenTotal,
                   flushed, sinceCommit, sink, flushCalls, call, lastCall, lastCommit>>

CheckTermination ==
    /\ pc = "check"
    /\ IF is_end_of_data
       THEN /\ pc' = "final"
            /\ UNCHANGED current_start_page
       ELSE /\ current_start_page' = current_start_page + STEP_SIZE
            /\ pc' = "launch"
    /\ UNCHANGED <<stateObject, watermark, total_saved_count,
                   global_max_timestamp, batch_file_counter, batch_data,
                   batch_has_error, is_end_of_data, futures, pending, result,
                   transient, atStart, atLaunch, lastWritten, writtenTotal,
                   flushed, sinceCommit, sink, flushCalls, call, lastCall, lastCommit>>

\* "if global_max_timestamp >= watermark": not what the code does.
FinalCommitDueOrEqual(global_max, w) == global_max >= w

\* The condition of the "final watermark check".
FinalCommitDue(global_max, w) == global_max > w

\* "Final watermark check" and the returned dictionary.
FinalCommit(putFails) ==
    /\ pc = "final"
    /\ IF FinalCommitDue(global_max_timestamp, watermark)
       THEN /\ stateObject' = save_last_sync_time(stateObject,
                                                  global_max_timestamp, putFails)
            /\ lastCall' = <<SaveCall(stateObject, global_max_timestamp,
                                      putFails)>>
       ELSE UNCHANGED <<stateObject, lastCall>>
    /\ IF FinalCommitDue(global_max_timestamp, watermark) /\ SaveRaises(putFails)
       THEN /\ pc' = "raised"
            /\ UNCHANGED result
       ELSE /\ pc' = "returned"
            /\ result' = [returned |-> TRUE,
                          total_saved |-> total_saved_count,
                          final_watermark |-> global_max_timestamp]
    /\ UNCHANGED <<watermark, current_start_page, total_saved_count,
                   global_max_timestamp, batch_file_counter, batch_data,
                   batch_has_error, is_end_of_data, futures, pending,
                   transient, atStart, atLaunch, lastWritten, writtenTotal,
                   flushed, sinceCommit, sink, flushCalls, call, lastCommit>>

(***************************************************************************)
(* The upstream resource answers the request of page p.  Within one batch  *)
(* it gives at most MaxTransient retryable answers.                        *)
(***************************************************************************)
UpstreamAnswers(p) ==
    \E r \in Responses :
        /\ IsRetryable(r) => transient < MaxTransient
        /\ Respond(p, r)

Next ==
    \/ \E readFails \in BOOLEAN : StartRun(readFails, TRUE)
    \/ LaunchBatch
    \/ \E p \in Pages : TaskStart(p)
    \/ \E p \in Pages : UpstreamAnswers(p)
    \/ \E p \in Pages : Wake(p)
    \/ \E p \in Pages : Collect(p)
    \/ \E putFails \in BOOLEAN : FlushBatch(putFails)
    \/ \E putFails \in BOOLEAN : CommitWatermark(putFails)
    \/ CheckTermination
    \/ \E putFails \in BOOLEAN : FinalCommit(putFails)

\* The runs of Spec are started on different dates.
Spec == Init /\ [][Next]_vars

\* A run is started on the date of the run before it.
RerunSameDay ==
    /\ pc = "returned"
    /\ \E readFails \in BOOLEAN : StartRun(readFails, FALSE)

NextSameDay == Next \/ RerunSameDay

\* Runs started on different dates or on the same date.
SpecSameDay == Init /\ [][NextSameDay]_vars

(***************************************************************************)
(* The run followed past the last page of the model.  A window that        *)
(* reaches beyond MaxPage lies beyond the records of the upstream          *)
(* resource, and so does every window after it: current_start_page stays   *)
(* at the start of the first such window, which stands for all of them,    *)
(* and the tasks of the window are held in the last STEP_SIZE futures.     *)
(***************************************************************************)
Beyond(start) == ~(PagesToFetch(start) \subseteq Pages)

\* The futures that hold the tasks of a window beyond MaxPage.
BeyondSlots == (MaxPage - STEP_SIZE + 1)..MaxPage

\* The page whose task the future p holds in the window that starts at start.
PageOfSlot(start, p) == start + p - (MaxPage - STEP_SIZE + 1)

LaunchBeyond ==
    /\ pc = "launch"
    /\ Beyond(current_start_page)
    /\ batch_data' = {}
    /\ batch_has_error' = FALSE
    /\ is_end_of_data' = FALSE
    /\ futures' = [p \in Pages |->
                     IF p \in BeyondSlots THEN SubmittedTask ELSE futures[p]]
    /\ pending' = BeyondSlots
    /\ transient' = 0
    /\ atLaunch' = [store |-> stateObject, gmax |-> global_max_timestamp]
    /\ lastWritten' = <<>>
    /\ lastCall' = <<>>
    /\ pc' = "await"
    /\ UNCHANGED lastCommit
    /\ UNCHANGED <<stateObject, watermark, current_start_page,
                   total_saved_count, global_max_timestamp,
                   batch_file_counter, result, atStart, writtenTotal,
                   flushed, sinceCommit, sink, flushCalls, call>>

\* The upstream resource answers the request of a page beyond MaxPage.
UpstreamAnswersBeyond(p) ==
    \E r \in Responses :
        /\ Beyond(current_start_page)
        /\ futures[p].st = "http"
        /\ IsRetryable(r) => transient < MaxTransient
        /\ futures' = [futures EXCEPT ![p] =
                         AfterResponse(@, PageOfSlot(current_start_page, p), r)]
        /\ transient' = IF IsRetryable(r) THEN transient + 1 ELSE transient
        /\ UNCHANGED call
        /\ UNCHANGED ctlVars

\* "Check Termination" and "Step Forward" in a window beyond MaxPage.
CheckTerminationBeyond ==
    /\ pc = "check"
    /\ Beyond(current_start_page)
    /\ pc' = IF is_end_of_data THEN "final" ELSE "launch"
    /\ UNCHANGED <<stateObject, watermark, current_start_page,
                   total_saved_count, global_max_timestamp,
                   batch_file_counter, batch_data, batch_has_error,
                   is_end_of_data, futures, pending, result, transient,
                   atStart, atLaunch, lastWritten, writtenTotal, flushed,
                   sinceCommit, sink, flushCalls, call, lastCall, lastCommit>>

NextLive ==
    \/ \E readFails \in BOOLEAN : StartRun(readFails, TRUE)
    \/ LaunchBatch
    \/ LaunchBeyond
    \/ \E p \in Pages : TaskStart(p)
    \/ \E p \in Pages : ~Beyond(current_start_page) /\ UpstreamAnswers(p)
    \/ \E p \in Pages : UpstreamAnswersBeyond(p)
    \/ \E p \in Pages : Wake(p)
    \/ \E p \in Pages : Collect(p)
    \/ \E putFails \in BOOLEAN : FlushBatch(putFails)
    \/ \E putFails \in BOOLEAN : CommitWatermark(putFails)
    \/ ~Beyond(current_start_page) /\ CheckTermination
    \/ CheckTerminationBeyond
    \/ \E putFails \in BOOLEAN : FinalCommit(putFails)

\* The threads of the pool and the controller run, requests.get returns or
\* raises within its timeout and time.sleep returns: a run that can take a
\* step takes one.
SpecLive == Init /\ [][NextLive]_vars /\ WF_vars(NextLive)

(***************************************************************************)
(* One call of fetch_page_data(page_num, watermark) on its own, with the   *)
(* requests it issues and the times it sleeps.  The upstream resource may  *)
(* give any response to every request.                                     *)
(***************************************************************************)
\* What one time.sleep of the call is recorded as: the time slept, whether
\* the Retry-After header set it and to how many seconds, and current_delay
\* at that moment.
SleepRecord(r, current_delay, header, jitter) ==
    LET hinted == /\ Classify(r) = "rate_limit"
                  /\ header # <<>>
                  /\ ~FloatRaises(header)
    IN [t |-> SleepTime(r, current_delay, header, jitter),
        hinted |-> hinted,
        hint |-> IF hinted THEN header[1] ELSE 0,
        delay |-> current_delay]

InitFetch ==
    /\ pc = "fetch"
    /\ stateObject = <<>>
    /\ watermark = DEFAULT_START_DATE
    /\ current_start_page = 1
    /\ total_saved_count = 0
    /\ global_max_timestamp = DEFAULT_START_DATE
    /\ batch_file_counter = 0
    /\ batch_data = {}
    /\ batch_has_error = FALSE
    /\ is_end_of_data = FALSE
    /\ futures = [p \in Pages |-> NoTask]
    /\ pending = {}
    /\ result = NoResult
    /\ transient = 0
    /\ atStart = DEFAULT_START_DATE
    /\ atLaunch = [store |-> <<>>, gmax |-> DEFAULT_START_DATE]
    /\ lastWritten = <<>>
    /\ writtenTotal = 0
    /\ flushed = {}
    /\ sinceCommit = 0
    /\ sink = {}
    /\ flushCalls = <<>>
    /\ call = NoCall
    /\ lastCall = <<>>
    /\ lastCommit = <<>>

\* The call starts: current_delay = BASE_DELAY, and the request of attempt 1
\* is issued.
FetchStart(p) ==
    /\ pc = "fetch"
    /\ \A q \in Pages : futures[q].st = "none"
    /\ futures' = [futures EXCEPT ![p] =
                     [@ EXCEPT !.st = "http", !.since = watermark,
                               !.attempt = 1,
                               !.current_delay = BASE_DELAY]]
    /\ call' = [call EXCEPT !.requests = 1]
    /\ UNCHANGED transient
    /\ UNCHANGED ctlVars

\* The request gets response r; on a retryable one the call goes to sleep.
FetchRespond(p, r, header, jitter) ==
    /\ pc = "fetch"
    /\ futures[p].st = "http"
    /\ futures' = [futures EXCEPT ![p] = AfterResponse(@, p, r)]
    /\ call' = [call EXCEPT
                  !.response = <<r>>,
                  !.sleeps = IF futures'[p].st = "sleep"
                             THEN Append(@, SleepRecord(r, futures[p].current_delay,
                                                        header, jitter))
                             ELSE @]
    /\ UNCHANGED transient
    /\ UNCHANGED ctlVars

\* time.sleep returns: the next request is issued, or the loop has ended.
FetchWake(p) ==
    /\ pc = "fetch"
    /\ futures[p].st = "sleep"
    /\ futures' = [futures EXCEPT ![p] = AfterSleep(@)]
    /\ call' = [call EXCEPT
                  !.requests = IF futures'[p].st = "http" THEN @ + 1 ELSE @]
    /\ UNCHANGED transient
    /\ UNCHANGED ctlVars

NextFetch ==
    \/ \E p \in Pages : FetchStart(p)
    \/ \E p \in Pages, r \in Responses, header \in RetryAfterHeaders,
          jitter \in Jitters : FetchRespond(p, r, header, jitter)
    \/ \E p \in Pages : FetchWake(p)

\* requests.get returns or raises within its timeout and time.sleep
\* returns, so a call that can take a step takes one.
SpecFetch == InitFetch /\ [][NextFetch]_vars /\ WF_vars(NextFetch)

(***************************************************************************)
(* The extractor used from outside a run: the constructor, the methods of  *)
(* the Watermark Store and of the Sink Writer called with any argument,    *)
(* and lambda_handler of src/lambda-deployment/lambda_handler.py.          *)
(***************************************************************************)
\* Values of a configuration string: empty, or not.
ConfigValues == {"", "set"}

\* How GitHubIssueExtractor(...) ends: with ValueError, with the exception
\* of boto3.client("s3") when that fails, or with an extractor.
Ctor(github_token, s3_bucket, repo_owner, repo_name, clientFails) ==
    IF github_token = "" THEN "ValueError"
    ELSE IF s3_bucket = "" THEN "ValueError"
    ELSE IF clientFails THEN "Exception"
    ELSE "ok"

InitApi ==
    /\ pc = "new"
    /\ stateObject = <<>>
    /\ watermark = DEFAULT_START_DATE
    /\ current_start_page = 1
    /\ total_saved_count = 0
    /\ global_max_timestamp = DEFAULT_START_DATE
    /\ batch_file_counter = 0
    /\ batch_data = {}
    /\ batch_has_error = FALSE
    /\ is_end_of_data = FALSE
    /\ futures = [p \in Pages |-> NoTask]
    /\ pending = {}
    /\ result = NoResult
    /\ transient = 0
    /\ atStart = DEFAULT_START_DATE
    /\ atLaunch = [store |-> <<>>, gmax |-> DEFAULT_START_DATE]
    /\ lastWritten = <<>>
    /\ writtenTotal = 0
    /\ flushed = {}
    /\ sinceCommit = 0
    /\ sink = {}
    /\ flushCalls = <<>>
    /\ call = NoCall
    /\ lastCall = <<>>
    /\ lastCommit = <<>>

\* What a call from outside a run leaves alone.
apiFrame == <<watermark, current_start_page, total_saved_count,
              global_max_timestamp, batch_data, batch_has_error,
              is_end_of_data, futures, pending, result, transient, atStart,
              atLaunch, lastWritten, writtenTotal, flushed, sinceCommit,
              flushCalls, call, lastCommit>>

\* GitHubIssueExtractor(github_token, s3_bucket, repo_owner, repo_name)
Construct(github_token, s3_bucket, repo_owner, repo_name, clientFails) ==
    /\ pc = "new"
    /\ LET how == Ctor(github_token, s3_bucket, repo_owner, repo_name,
                       clientFails) IN
       /\ lastCall' = <<[op |-> "__init__",
                         arg |-> [github_token |-> github_token,
                                  s3_bucket |-> s3_bucket,
                                  repo_owner |-> repo_owner,
                                  repo_name |-> repo_name],
                         fails |-> clientFails,
                         before |-> <<>>,
                         ret |-> how,
                         raised |-> how # "ok"]>>
       /\ pc' = IF how = "ok" THEN "ready" ELSE how
    /\ UNCHANGED <<stateObject, sink, batch_file_counter>>
    /\ UNCHANGED apiFrame

\* extractor.get_last_sync_time()
ApiGet(readFails) ==
    /\ pc = "ready"
    /\ lastCall' = <<[op |-> "get_last_sync_time", arg |-> <<>>,
                      fails |-> readFails, before |-> stateObject,
                      ret |-> get_last_sync_time(stateObject, readFails),
                      raised |-> GetRaises(stateObject, readFails)]>>
    /\ pc' = IF GetRaises(stateObject, readFails) THEN "raised" ELSE "ready"
    /\ UNCHANGED <<stateObject, sink, batch_file_counter>>
    /\ UNCHANGED apiFrame

\* extractor.save_last_sync_time(timestamp)
ApiSave(timestamp, putFails) ==
    /\ pc = "ready"
    /\ stateObject' = save_last_sync_time(stateObject, timestamp, putFails)
    /\ lastCall' = <<SaveCall(stateObject, timestamp, putFails)>>
    /\ pc' = IF SaveRaises(putFails) THEN "raised" ELSE "ready"
    /\ UNCHANGED <<sink, batch_file_counter>>
    /\ UNCHANGED apiFrame

\* Buffers flush_buffer_to_csv is called with: the empty one, one page, two
\* pages.
Buffers == SUBSET {UpstreamPage(DEFAULT_START_DATE, 1),
                   UpstreamPage(DEFAULT_START_DATE, NumBlocks)}

\* extractor.flush_buffer_to_csv(data_buffer)
ApiFlush(lists, putFails) ==
    /\ pc = "ready"
    /\ Len_(lists) > 0 => batch_file_counter < MaxFlushes
    /\ batch_file_counter' = CounterAfterFlush(batch_file_counter, lists, putFails)
    /\ sink' = SinkAfterFlush(sink, batch_file_counter, lists, putFails)
    /\ lastCall' = <<[op |-> "flush_buffer_to_csv", arg |-> lists,
                      fails |-> putFails,
                      before |-> [counter |-> batch_file_counter, sink |-> sink],
                      ret |-> flush_buffer_to_csv(lists, putFails),
                      raised |-> FlushRaises(lists, putFails)]>>
    /\ pc' = IF FlushRaises(lists, putFails) THEN "raised" ELSE "ready"
    /\ UNCHANGED stateObject
    /\ UNCHANGED apiFrame

\* What get_secret gives: <<>> when it raises, or the secret string.
Secrets == {<<>>, <<"">>, <<"set">>}

\* get_config_from_env()["github_token"]: the secret, or GITHUB_TOKEN of
\* the environment when get_secret raised.
GithubToken(secret, envToken) ==
    IF secret = <<>> THEN envToken ELSE secret[1]

\* The keys of an event that lambda_handler reads.
EventKeys == {"repo_owner", "repo_name", "s3_bucket"}

\* Events: any of the keys, each with an empty or a non-empty value.
Events == UNION {[K -> {"", "event"}] : K \in SUBSET EventKeys}

\* config[key] after "Allow event-based overrides"; the environment gives
\* "env" for each key.
Overridden(event, key) ==
    IF key \in DOMAIN event THEN event[key] ELSE "env"

\* How extractor.run_extraction() ends inside lambda_handler.
RunOutcomes == {"ok", "ValueError", "Exception"}

\* lambda_handler without "except Exception": not what the code does.
lambda_handler_unguarded(secret, envToken, event, clientFails, runOutcome) ==
    LET token == GithubToken(secret, envToken)
        config == [github_token |-> token,
                   s3_bucket |-> Overridden(event, "s3_bucket"),
                   repo_owner |-> Overridden(event, "repo_owner"),
                   repo_name |-> Overridden(event, "repo_name")]
        how == Ctor(config.github_token, config.s3_bucket, config.repo_owner,
                    config.repo_name, clientFails)
    IN  IF token = ""
        THEN [statusCode |-> 500, constructed |-> FALSE, ran |-> FALSE,
              raised |-> FALSE, config |-> config]
        ELSE IF how = "ValueError"
        THEN [statusCode |-> 400, constructed |-> FALSE, ran |-> FALSE,
              raised |-> FALSE, config |-> config]
        ELSE IF how = "Exception"
        THEN [statusCode |-> 0, constructed |-> FALSE, ran |-> FALSE,
              raised |-> TRUE, config |-> config]
        ELSE IF runOutcome = "ValueError"
        THEN [statusCode |-> 400, constructed |-> TRUE, ran |-> TRUE,
              raised |-> FALSE, config |-> config]
        ELSE IF runOutcome = "Exception"
        THEN [statusCode |-> 0, constructed |-> TRUE, ran |-> TRUE,
              raised |-> TRUE, config |-> config]
        ELSE [statusCode |-> 200, constructed |-> TRUE, ran |-> TRUE,
              raised |-> FALSE, config |-> config]

\* What lambda_handler(event, context) returns: the status code, whether an
\* extractor was constructed and run, whether an exception left the handler,
\* and the configuration the handler worked with.
lambda_handler(secret, envToken, event, clientFails, runOutcome) ==
    LET token == GithubToken(secret, envToken)
        config == [github_token |-> token,
                   s3_bucket |-> Overridden(event, "s3_bucket"),
                   repo_owner |-> Overridden(event, "repo_owner"),
                   repo_name |-> Overridden(event, "repo_name")]
        how == Ctor(config.github_token, config.s3_bucket, config.repo_owner,
                    config.repo_name, clientFails)
    IN  IF token = ""
        THEN [statusCode |-> 500, constructed |-> FALSE, ran |-> FALSE,
              raised |-> FALSE, config |-> config]
        ELSE IF how = "ValueError"
        THEN [statusCode |-> 400, constructed |-> FALSE, ran |-> FALSE,
              raised |-> FALSE, config |-> config]
        ELSE IF how = "Exception"
        THEN [statusCode |-> 500, constructed |-> FALSE, ran |-> FALSE,
              raised |-> FALSE, config |-> config]
        ELSE IF runOutcome = "ValueError"
        THEN [statusCode |-> 400, constructed |-> TRUE, ran |-> TRUE,
              raised |-> FALSE, config |-> config]
        ELSE IF runOutcome = "Exception"
        THEN [statusCode |-> 500, constructed |-> TRUE, ran |-> TRUE,
              raised |-> FALSE, config |-> config]
        ELSE [statusCode |-> 200, constructed |-> TRUE, ran |-> TRUE,
              raised |-> FALSE, config |-> config]

\* One invocation of the Lambda function.
Invoke(secret, envToken, event, clientFails, runOutcome) ==
    /\ pc = "new"
    /\ lastCall' = <<[op |-> "lambda_handler",
                      arg |-> [secret |-> secret, envToken |-> envToken,
                               event |-> event, runOutcome |-> runOutcome],
                      fails |-> clientFails,
                      before |-> <<>>,
                      ret |-> lambda_handler(secret, envToken, event,
                                             clientFails, runOutcome),
                      raised |-> lambda_handler(secret, envToken, event,
                                                clientFails, runOutcome).raised]>>
    /\ pc' = "handled"
    /\ UNCHANGED <<stateObject, sink, batch_file_counter>>
    /\ UNCHANGED apiFrame

NextApi ==
    \/ \E github_token \in ConfigValues, s3_bucket \in ConfigValues,
          repo_owner \in ConfigValues, repo_name \in ConfigValues,
          clientFails \in BOOLEAN :
            Construct(github_token, s3_bucket, repo_owner, repo_name, clientFails)
    \/ \E readFails \in BOOLEAN : ApiGet(readFails)
    \/ \E timestamp \in 1..NumBlocks, putFails \in BOOLEAN :
            ApiSave(timestamp, putFails)
    \/ \E lists \in Buffers, putFails \in BOOLEAN : ApiFlush(lists, putFails)
    \/ \E secret \in Secrets, envToken \in ConfigValues, event \in Events,
          clientFails \in BOOLEAN, runOutcome \in RunOutcomes :
            Invoke(secret, envToken, event, clientFails, runOutcome)

SpecApi == InitApi /\ [][NextApi]_vars

(***************************************************************************)
(* Properties.                                                             *)
(***************************************************************************)
\* The window a page belongs to, counted from 0.
WindowOf(p) == (p - 1) \div STEP_SIZE

CurrentWindow == PagesToFetch(current_start_page) \cap Pages

\* The fetch of page p settled as Failed: fetch_page_data returned None.
SettledFailed(p) == futures[p].st = "done" /\ futures[p].ret.none

\* The fetch of page p settled as EndOfData or as a Data page that is not full.
SettledEnd(p) ==
    futures[p].st = "done" /\ ~futures[p].ret.none /\ futures[p].ret.n < PAGE_SIZE

\* The fetch of page p settled as a full Data page.
SettledFull(p) ==
    futures[p].st = "done" /\ ~futures[p].ret.none /\ futures[p].ret.n = PAGE_SIZE

FailedInBatch == \E p \in CurrentWindow : SettledFailed(p)

\* Records written to the sink in this run that the persisted watermark
\* does not cover.
Uncovered == SumN({x \in flushed : x.ts > Persisted})

\* C1: once this run has advanced the persisted watermark, the persisted
\* watermark is not greater than the updated_at of any record lying on a
\* page that settled as Failed in this run.
C1_WatermarkNotPastFailedPage ==
    \A p \in Pages :
        (SettledFailed(p) /\ UpstreamPage(watermark, p).n > 0 /\ Persisted > atStart)
            => Persisted <= UpstreamPage(watermark, p).ts

\* C2: when a batch with a Failed page has been processed, the Watermark
\* Store and global_max_timestamp hold what they held when the batch was
\* launched.
C2_FailedBatchLeavesWatermark ==
    (pc = "check" /\ FailedInBatch)
        => (stateObject = atLaunch.store /\ global_max_timestamp = atLaunch.gmax)

\* C2 witness: a processed batch with a Failed page whose other pages were
\* flushed and carry a timestamp above global_max_timestamp.
C2_Witness ==
    /\ pc = "check"
    /\ FailedInBatch
    /\ lastWritten # <<>>
    /\ lastWritten[1] > 0
    /\ MaxUpdatedAt(batch_data) > global_max_timestamp

\* C3: no step decreases the value held by the Watermark Store.
C3_StoreNeverDecreases == [][Persisted' >= Persisted]_vars

\* C4: when flush returned 0 for a batch with records, processing that
\* batch neither advances global_max_timestamp nor writes the store.
C4_FailedFlushNoAdvance ==
    (pc = "check" /\ lastWritten = <<0>>)
        => (global_max_timestamp = atLaunch.gmax /\ stateObject = atLaunch.store)

\* C5: the returned final_watermark is at least the watermark read at run
\* start, and no step within a run decreases global_max_timestamp.
C5_FinalWatermarkNotBelowStart ==
    /\ [](result.returned => result.final_watermark >= watermark)
    /\ [][pc \notin {"idle", "returned"}
            => global_max_timestamp' >= global_max_timestamp]_vars

\* C5 witness: a run of more than one batch returned a final_watermark above
\* the watermark it read.
C5_Witness ==
    /\ pc = "returned"
    /\ result.returned
    /\ result.final_watermark > watermark
    /\ current_start_page > 1

\* C6: the returned total_saved is the sum of what flush returned in the run.
C6_TotalSavedIsSumOfFlush ==
    result.returned => result.total_saved = writtenTotal

\* C7: once a page has settled as EndOfData or as a short Data page, no page
\* of a later window is requested.
C7_NoWindowAfterEnd ==
    \A p \in Pages, q \in Pages :
        (SettledEnd(p) /\ q \in Requested) => WindowOf(q) <= WindowOf(p)

\* C7 witness: the loop has ended on a window holding a short Data page, a
\* Failed page and a full Data page.
C7_Witness ==
    /\ pc = "final"
    /\ \E p \in CurrentWindow, q \in CurrentWindow, r \in CurrentWindow :
        /\ SettledEnd(p) /\ futures[p].ret.n > 0
        /\ SettledFailed(q)
        /\ SettledFull(r)

\* C8 as stated: the flushed records the persisted watermark does not cover
\* are at most one batch's worth.
C8_AtMostOneBatchUncovered == Uncovered <= STEP_SIZE * PAGE_SIZE

\* C8 as amended: the flushed records the persisted watermark does not cover
\* are at most one batch's worth for every batch flushed since the last
\* commit of the run that was stored.
C8_UncoveredBoundedByBatchesSinceCommit ==
    Uncovered <= sinceCommit * STEP_SIZE * PAGE_SIZE

\* C8 witness: two batches were flushed without a stored commit and more
\* than one batch's worth of flushed records is not covered.
C8_Witness ==
    /\ sinceCommit = 2
    /\ Uncovered > STEP_SIZE * PAGE_SIZE

\* C9: a task that has not settled belongs to the window the controller is
\* waiting on, and the controller flushes, commits and launches only when
\* no task is unsettled.
C9_BatchesStrictlySequential ==
    /\ \A p \in Requested : p \notin CurrentWindow => futures[p].st = "done"
    /\ (\E p \in Pages : futures[p].st \in {"queued", "http", "sleep"})
            => pc = "await"

\* C9 witness: a page of the second window is being fetched.
C9_Witness ==
    /\ current_start_page > 1
    /\ InFlight # {}

\* C10: at most STEP_SIZE fetches are in flight, all of one window.
C10_AtMostStepSizeInFlight ==
    /\ Cardinality(InFlight) <= STEP_SIZE
    /\ \A p \in InFlight, q \in InFlight : WindowOf(p) = WindowOf(q)

\* C10 witness: STEP_SIZE fetches are in flight, one of them in backoff.
C10_Witness ==
    /\ Cardinality(InFlight) = STEP_SIZE
    /\ \E p \in InFlight : futures[p].st = "sleep"

\* C11: while and after the futures of a batch are yielded, batch_has_error
\* is true exactly when a page of the batch that has been yielded settled as
\* Failed, whatever the order in which the futures complete.
C11_HadFailureIffSomePageFailed ==
    (pc \in {"await", "commit", "check"})
        => (batch_has_error
              <=> \E p \in CurrentWindow \ pending : SettledFailed(p))

\* C11 witness: a Failed page and a page that did not fail have been yielded
\* and a settled page that did not fail is still to be yielded.
C11_Witness ==
    /\ pc = "await"
    /\ batch_has_error
    /\ Cardinality(pending) = 1
    /\ \E p \in CurrentWindow \ pending, q \in CurrentWindow \ pending :
          /\ SettledFailed(p)
          /\ futures[q].st = "done" /\ ~futures[q].ret.none
    /\ \E q \in pending : futures[q].st = "done" /\ ~futures[q].ret.none

\* C12: at the termination check is_end_of_data is true exactly when a page
\* of the batch settled as EndOfData or as a Data page with fewer than
\* PAGE_SIZE records.
C12_EndOfDataIffEmptyOrShortPage ==
    (pc = "check")
        => (is_end_of_data <=> \E p \in CurrentWindow : SettledEnd(p))

\* C12 witness: the termination check of a batch made of full Data pages and
\* a Failed page, which is not at the end of data.
C12_Witness ==
    /\ pc = "check"
    /\ ~is_end_of_data
    /\ \E p \in CurrentWindow, q \in CurrentWindow :
          SettledFailed(p) /\ SettledFull(q)
    /\ \A p \in CurrentWindow : SettledFailed(p) \/ SettledFull(p)

\* First pages of the windows of a run.
WindowStarts == {p \in Pages : p % STEP_SIZE = 1}

\* The batch launched at page s has been processed.
Processed(s) ==
    \/ s < current_start_page
    \/ s = current_start_page /\ pc \in {"commit", "check", "final", "returned"}

\* The non-empty lists the pages of the window starting at s returned.
DataOf(s) ==
    {futures[p].ret : p \in {q \in PagesToFetch(s) \cap Pages :
                                /\ futures[q].st = "done"
                                /\ ~futures[q].ret.none
                                /\ futures[q].ret.n > 0}}

\* The calls of flush made for the batch launched at page s.
CallsFor(s) == {i \in 1..Len(flushCalls) : flushCalls[i].start = s}

\* C13: for every processed batch with a non-empty Data page, flush was
\* called exactly once, with exactly the records of the Data pages of that
\* batch, whether or not another page of the batch Failed; for a batch
\* without one it was not called.
C13_FlushCalledOncePerBatchWithItsData ==
    \A s \in WindowStarts :
        Processed(s) =>
            IF DataOf(s) # {}
            THEN /\ Cardinality(CallsFor(s)) = 1
                 /\ \A i \in CallsFor(s) : flushCalls[i].arg = DataOf(s)
            ELSE CallsFor(s) = {}

\* C13 witness: the second batch of a run was flushed with two Data pages
\* next to a Failed page, after a first batch that was flushed too.
C13_Witness ==
    /\ pc = "commit"
    /\ current_start_page > 1
    /\ Len(flushCalls) = 2
    /\ FailedInBatch
    /\ Cardinality(DataOf(current_start_page)) = 2

\* C14 as stated: an upload that succeeds never targets a name that is
\* already in the sink.
C14_NoArtifactWrittenTwice ==
    [][(Len(flushCalls') = Len(flushCalls) + 1
          /\ flushCalls'[Len(flushCalls')].ret > 0)
        => flushCalls'[Len(flushCalls')].key \notin sink]_vars

\* C15: within one run the n-th call of flush with records targets the
\* sequence number n.
C15_NthFlushTargetsSequenceN ==
    \A i \in 1..Len(flushCalls) : flushCalls[i].key = S3Key(i)

\* C15 witness: the second flush of a run, after a first one whose upload
\* failed.
C15_Witness ==
    /\ Len(flushCalls) = 2
    /\ flushCalls[1].ret = 0
    /\ flushCalls[2].ret > 0

\* The page the call of fetch_page_data is for.
CalledPages == {p \in Pages : futures[p].st # "none"}

\* The last response the call received is one of the statuses S.
RespondedWith(S) == call.response # <<>> /\ call.response[1] \in S

\* Every request of the call but the last was followed by one sleep, and
\* the last one by none.
NoSleepAfterLastRequest == call.requests = Len(call.sleeps) + 1

\* C16: when the response is 404 or 422 the call has returned the empty
\* list, without a sleep and without a request after that response, at
\* whatever attempt the response came.
C16_EndStatusReturnsEmptyList ==
    \A p \in CalledPages :
        RespondedWith({404, 422})
            => (futures[p] = Settled(EmptyList) /\ NoSleepAfterLastRequest)

\* C16 witness: a 422 answered the third request of a call.
C16_Witness ==
    /\ CalledPages # {}
    /\ RespondedWith({422})
    /\ call.requests = 3

\* Statuses that are not 200, 404, 422, 429, 403 or a 5xx.
OtherStatuses == {x \in Statuses : x \notin {200, 404, 422, 429, 403} /\ x < 500}

\* C17: when the response is a status other than 200, 404, 422, 429, 403
\* and 5xx the call has returned None, without a sleep and without a request
\* after that response, at whatever attempt the response came.
C17_OtherStatusReturnsNone ==
    \A p \in CalledPages :
        RespondedWith(OtherStatuses)
            => (futures[p] = Settled(ReturnNone) /\ NoSleepAfterLastRequest)

\* C17 witness: a 401 answered the second request of a call.
C17_Witness ==
    /\ CalledPages # {}
    /\ RespondedWith({401})
    /\ call.requests = 2

\* The outcomes the call is to retry: rate limit, server error, transport
\* exception.
RetryableOutcomes ==
    {429, 403} \cup {x \in Statuses : x >= 500} \cup {TransportError}

\* C18: after a retryable response the call sleeps once and then issues the
\* request again, unless that was the response to its last attempt; when a
\* 200 comes after k retryable responses, k below MAX_RETRIES, the call has
\* issued k + 1 requests, slept k times and returned the body of the 200.
C18_RetriesUntilFirstNonRetryable ==
    \A p \in CalledPages :
        /\ RespondedWith(RetryableOutcomes) =>
              \/ futures[p].st = "sleep" /\ Len(call.sleeps) = call.requests
              \/ futures[p].st = "http" /\ NoSleepAfterLastRequest
              \/ futures[p].st = "done" /\ call.requests = MAX_RETRIES
        /\ RespondedWith({200}) =>
              /\ futures[p] = Settled(UpstreamPage(watermark, p))
              /\ NoSleepAfterLastRequest

\* C18 witness: a 200 with records came after four retryable responses.
C18_Witness ==
    /\ RespondedWith({200})
    /\ Len(call.sleeps) = MAX_RETRIES - 1
    /\ call.requests = MAX_RETRIES
    /\ \E p \in CalledPages : futures[p].st = "done" /\ futures[p].ret.n > 0

\* C19: a call issues at most MAX_RETRIES requests, has returned None when
\* all of them got retryable responses, and returns.
C19_CallSettlesWithinBudget ==
    /\ [](call.requests <= MAX_RETRIES)
    /\ [](\A p \in CalledPages :
            (futures[p].st = "done" /\ Len(call.sleeps) = MAX_RETRIES)
                => futures[p].ret.none)
    /\ <>(\E p \in Pages : futures[p].st = "done")

\* C19 witness: the call has returned None after MAX_RETRIES requests that
\* all got retryable responses.
C19_Witness ==
    /\ call.requests = MAX_RETRIES
    /\ Len(call.sleeps) = MAX_RETRIES
    /\ \E p \in CalledPages : futures[p] = Settled(ReturnNone)

\* C20 as stated: of two consecutive sleeps of a call the later one is at
\* least as long as the earlier one, as long as the delay is below the cap.
C20_SleepsNonDecreasing ==
    \A i \in 1..(Len(call.sleeps) - 1) :
        call.sleeps[i + 1].delay < MAX_DELAY
            => call.sleeps[i].t <= call.sleeps[i + 1].t

\* C20 as amended: the computed delay never decreases from one sleep to the
\* next, and of two consecutive sleeps that no Retry-After header set the
\* later one is at least as long as the earlier one, as long as the delay is
\* below the cap.
C20_UnhintedSleepsNonDecreasing ==
    \A i \in 1..(Len(call.sleeps) - 1) :
        /\ call.sleeps[i].delay <= call.sleeps[i + 1].delay
        /\ (/\ ~call.sleeps[i].hinted
            /\ ~call.sleeps[i + 1].hinted
            /\ call.sleeps[i + 1].delay < MAX_DELAY)
               => call.sleeps[i].t <= call.sleeps[i + 1].t

\* C20 witness: a sleep set by a Retry-After header is followed by a shorter
\* sleep, and a sleep with the largest jitter by one without jitter.
C20_Witness ==
    /\ \E i \in 1..(Len(call.sleeps) - 1) :
          /\ call.sleeps[i].hinted
          /\ call.sleeps[i].t > call.sleeps[i + 1].t
    /\ \E i \in 1..(Len(call.sleeps) - 1) :
          /\ ~call.sleeps[i].hinted
          /\ ~call.sleeps[i + 1].hinted
          /\ call.sleeps[i].t = call.sleeps[i].delay + 1
          /\ call.sleeps[i + 1].t = call.sleeps[i + 1].delay

\* C21: a sleep after a rate-limit response with a Retry-After of N seconds
\* lasts N + 1, whatever current_delay and the jitter are, and current_delay
\* is doubled, up to MAX_DELAY, for the retry after it.
C21_HintedSleepIsHintPlusOne ==
    \A i \in 1..Len(call.sleeps) :
        call.sleeps[i].hinted =>
            /\ call.sleeps[i].t = call.sleeps[i].hint + 1
            /\ i < Len(call.sleeps) =>
                  call.sleeps[i + 1].delay =
                      Min(2 * call.sleeps[i].delay, MAX_DELAY)

\* C21 witness: a Retry-After of 5 seconds at the third attempt, where
\* current_delay is 4, set a sleep of 6 and was followed by another sleep.
C21_Witness ==
    /\ Len(call.sleeps) >= 4
    /\ call.sleeps[3].hinted
    /\ call.sleeps[3].hint = 5
    /\ call.sleeps[3].delay = 4

\* The latest call is a call of the method op.
Called(op) == lastCall # <<>> /\ lastCall[1].op = op

\* C22: flush_buffer_to_csv called with an empty list has returned 0 without
\* raising, and the sink and the batch sequence counter are what they were
\* before the call.
C22_EmptyFlushIsNoOp ==
    (Called("flush_buffer_to_csv") /\ Len_(lastCall[1].arg) = 0)
        => /\ lastCall[1].ret = 0
           /\ ~lastCall[1].raised
           /\ sink = lastCall[1].before.sink
           /\ batch_file_counter = lastCall[1].before.counter

\* C22 witness: an empty list was flushed on an extractor that had already
\* uploaded one object.
C22_Witness ==
    /\ Called("flush_buffer_to_csv")
    /\ lastCall[1].arg = {}
    /\ batch_file_counter = 1
    /\ sink = {S3Key(1)}

\* C24: get_last_sync_time has not raised; it returned the stored token
\* when the state object exists and the read succeeded, and
\* DEFAULT_START_DATE when the object is absent or the read failed.
C24_ReadReturnsTokenOrDefault ==
    Called("get_last_sync_time") =>
        /\ ~lastCall[1].raised
        /\ (lastCall[1].before # <<>> /\ ~lastCall[1].fails)
              => lastCall[1].ret = lastCall[1].before[1]
        /\ (lastCall[1].before = <<>> \/ lastCall[1].fails)
              => lastCall[1].ret = DEFAULT_START_DATE

\* C24 witness: the read of an existing state object failed.
C24_Witness ==
    /\ Called("get_last_sync_time")
    /\ lastCall[1].before # <<>>
    /\ lastCall[1].fails
    /\ pc = "ready"

\* C23: no exception leaves flush_buffer_to_csv; a call whose upload failed
\* returned 0 and a call whose upload succeeded returned the number of
\* records given; after a flush that returned 0 the run goes to its
\* termination check and, when the data has not ended, to the next window.
C23_FailedFlushReturnsZeroRunGoesOn ==
    /\ [](pc # "raised")
    /\ [](\A i \in 1..Len(flushCalls) :
            flushCalls[i].ret = IF flushCalls[i].arg \subseteq flushed
                                THEN Len_(flushCalls[i].arg)
                                ELSE 0)
    /\ [][(pc = "commit" /\ lastWritten = <<0>>) => pc' = "check"]_vars
    /\ [][(pc = "check" /\ lastWritten = <<0>> /\ ~is_end_of_data)
            => (pc' = "launch"
                  /\ current_start_page' = current_start_page + STEP_SIZE)]_vars

\* C23 witness: the pages of the second window are being fetched after the
\* upload of the first batch failed.
C23_Witness ==
    /\ pc = "await"
    /\ current_start_page = 1 + STEP_SIZE
    /\ InFlight # {}
    /\ Len(flushCalls) = 1
    /\ flushCalls[1].ret = 0
    /\ Len_(flushCalls[1].arg) > 0

\* C25: no exception leaves save_last_sync_time; it returned True exactly
\* when the write succeeded, the store then holding the token given, and
\* after a failed write the store holds what it held before; the run goes
\* on to its termination check, or returns, after the call.
C25_SaveReportsOutcomeRunGoesOn ==
    /\ [](pc # "raised")
    /\ [](Called("save_last_sync_time") =>
            /\ ~lastCall[1].raised
            /\ lastCall[1].ret = ~lastCall[1].fails
            /\ lastCall[1].ret => stateObject = <<lastCall[1].arg>>
            /\ ~lastCall[1].ret => stateObject = lastCall[1].before)
    /\ [][pc = "commit" => pc' = "check"]_vars
    /\ [][pc = "final" => pc' = "returned"]_vars

\* C25 witness: the commit of the first batch failed to be stored and the
\* run is about to launch its second window.
C25_Witness ==
    /\ pc = "launch"
    /\ current_start_page = 1 + STEP_SIZE
    /\ Called("save_last_sync_time")
    /\ ~lastCall[1].ret
    /\ stateObject # <<lastCall[1].arg>>

\* C26 as stated: the final_watermark a run returns is the value the
\* Watermark Store holds when the run returns.
C26_FinalWatermarkIsStoredValue ==
    result.returned => result.final_watermark = Persisted

\* A page of the window starting at s settled as Failed.
FailedIn(s) == \E p \in PagesToFetch(s) \cap Pages : SettledFailed(p)

\* C27: no exception ends the run; for a processed batch with a Failed
\* page every page of the batch has settled and the records of its Data
\* pages were given to flush; and after a batch with a Failed page that is
\* not at the end of data the next window starts STEP_SIZE pages further.
C27_PageFailureNeverAborts ==
    /\ [](pc # "raised")
    /\ [](\A s \in WindowStarts :
            (Processed(s) /\ FailedIn(s)) =>
                /\ \A p \in PagesToFetch(s) \cap Pages : futures[p].st = "done"
                /\ DataOf(s) # {} =>
                      \E i \in CallsFor(s) : flushCalls[i].arg = DataOf(s))
    /\ [][(pc = "check" /\ batch_has_error /\ ~is_end_of_data)
            => (pc' = "launch"
                  /\ current_start_page' = current_start_page + STEP_SIZE)]_vars
    /\ [][pc = "launch"
            => (pc' = "await" /\ pending' = PagesToFetch(current_start_page))]_vars

\* C27 witness: the pages of the second window are being fetched after a
\* first batch in which a page Failed and the other pages were flushed.
C27_Witness ==
    /\ pc = "await"
    /\ current_start_page = 1 + STEP_SIZE
    /\ InFlight # {}
    /\ FailedIn(1)
    /\ Cardinality(DataOf(1)) = STEP_SIZE - 1
    /\ flushCalls[1].arg = DataOf(1)

\* The largest updated_at among the records of the Data pages of the
\* window starting at s.
LargestIn(s) ==
    CHOOSE t \in {x.ts : x \in DataOf(s)} : \A x \in DataOf(s) : x.ts <= t

\* C30: at the termination check of a batch without a Failed page whose
\* largest updated_at is above the global maximum the batch was launched
\* with, save_last_sync_time has been called with that largest updated_at
\* and, when the write succeeded, the store holds it; no page of the next
\* window has been requested by then.
C30_CommitBeforeNextWindow ==
    (/\ pc = "check"
     /\ ~FailedInBatch
     /\ DataOf(current_start_page) # {}
     /\ LargestIn(current_start_page) > atLaunch.gmax)
        => /\ Called("save_last_sync_time")
           /\ lastCall[1].arg = LargestIn(current_start_page)
           /\ lastCall[1].ret
                 => stateObject = <<LargestIn(current_start_page)>>
           /\ \A p \in Requested : p < current_start_page + STEP_SIZE

\* C30 witness: pages 1 to 3 returned full pages with updated_at 1 < 2 < 3
\* and the store holds 3 at the termination check of that batch.
C30_Witness ==
    /\ pc = "check"
    /\ current_start_page = 1
    /\ \A p \in CurrentWindow :
          SettledFull(p) /\ futures[p].ret.ts = p
    /\ Called("save_last_sync_time")
    /\ lastCall[1].ret
    /\ stateObject = <<3>>

\* C28 as stated: a constructor call with an empty github_token, s3_bucket,
\* repo_owner or repo_name raised ValueError, and no store read, page
\* request or sink write has been made.
C28_InvalidConfigRejected ==
    (/\ Called("__init__")
     /\ \E k \in DOMAIN lastCall[1].arg : lastCall[1].arg[k] = "")
        => /\ lastCall[1].ret = "ValueError"
           /\ pc = "ValueError"
           /\ stateObject = <<>> /\ sink = {} /\ call = NoCall

\* C29: lambda_handler lets no exception out; without a token it answers
\* 500 and constructs no extractor; it answers 400 when the constructor or
\* the run raises ValueError, 500 when either raises another exception and
\* 200 after a run that returned; what the event holds for repo_owner,
\* repo_name and s3_bucket replaces what the environment gives.
C29_HandlerStatusCodes ==
    Called("lambda_handler") =>
        LET a == lastCall[1].arg
            r == lastCall[1].ret
            token == IF a.secret = <<>> THEN a.envToken ELSE a.secret[1]
            how == Ctor(r.config.github_token, r.config.s3_bucket,
                        r.config.repo_owner, r.config.repo_name,
                        lastCall[1].fails)
        IN  /\ ~r.raised
            /\ r.config.github_token = token
            /\ \A k \in EventKeys :
                  r.config[k] = IF k \in DOMAIN a.event THEN a.event[k] ELSE "env"
            /\ token = "" => (r.statusCode = 500 /\ ~r.constructed)
            /\ (token # "" /\ how = "ValueError") => r.statusCode = 400
            /\ (token # "" /\ how = "Exception") => r.statusCode = 500
            /\ (token # "" /\ how = "ok") =>
                  /\ r.constructed /\ r.ran
                  /\ a.runOutcome = "ValueError" => r.statusCode = 400
                  /\ a.runOutcome = "Exception" => r.statusCode = 500
                  /\ a.runOutcome = "ok" => r.statusCode = 200

\* C29 witness: the event replaced the bucket of the environment by an
\* empty one and the handler answered 400.
C29_Witness ==
    /\ Called("lambda_handler")
    /\ "s3_bucket" \in DOMAIN lastCall[1].arg.event
    /\ lastCall[1].arg.event["s3_bucket"] = ""
    /\ lastCall[1].ret.config.s3_bucket = ""
    /\ lastCall[1].ret.statusCode = 400

(***************************************************************************)
(* C31: every run of run_extraction eventually leaves its batch loop and   *)
(* returns a result, whatever the upstream resource answers, every page of *)
(* every batch settling as Failed included.                                *)
(***************************************************************************)
C31_EveryRunReturns == (pc = "launch") ~> (pc = "returned")

(***************************************************************************)
(* C32: every backoff sleep inside fetch_page_data is followed by a        *)
(* resubmission of the request: a call issues more requests than it has    *)
(* finished sleeps, and it sleeps at most MAX_RETRIES - 1 times.           *)
(***************************************************************************)
C32_EverySleepFollowedByRequest ==
    /\ Len(call.sleeps) <= MAX_RETRIES - 1
    /\ \A p \in Pages :
         futures[p].st = "done" => Len(call.sleeps) < call.requests

(***************************************************************************)
(* C33: within one call of fetch_page_data the computed delay (before      *)
(* jitter and before a Retry-After override) of the k-th sleep, k counted  *)
(* from 0, is min(BASE_DELAY * 2^k, MAX_DELAY), whatever retryable         *)
(* outcomes came before it, and it never exceeds MAX_DELAY.                *)
(***************************************************************************)
C33_DelayIsCappedPowerOfTwo ==
    \A i \in 1..Len(call.sleeps) :
        /\ call.sleeps[i].delay = Min(BASE_DELAY * 2^(i - 1), MAX_DELAY)
        /\ call.sleeps[i].delay <= MAX_DELAY

\* A call that slept after a hinted rate limit, then after an outcome
\* without hint, then after a rate limit with jitter, and a fourth time.
C33_Witness ==
    /\ Len(call.sleeps) >= 4
    /\ call.sleeps[1].hinted
    /\ ~call.sleeps[2].hinted /\ call.sleeps[2].t = call.sleeps[2].delay
    /\ ~call.sleeps[3].hinted /\ call.sleeps[3].t > call.sleeps[3].delay
    /\ call.sleeps[4].delay = 8

(***************************************************************************)
(* C34: every page request issued during a run carries since = the         *)
(* watermark read at run start: the value is the same for all pages of all *)
(* batches and does not follow the watermark advanced and persisted in the *)
(* course of the run.                                                      *)
(***************************************************************************)
C34_SinceIsWatermarkOfRunStart ==
    pc \notin {"idle"} =>
        /\ watermark \in {atStart, DEFAULT_START_DATE}
        /\ \A p \in Pages :
             futures[p].st \in {"queued", "http", "sleep"}
                 => futures[p].since = watermark

\* A request of the second window in flight after the first window's commit
\* was stored.
C34_Witness ==
    /\ current_start_page > 1
    /\ Persisted > watermark
    /\ Persisted > atStart
    /\ \E p \in CurrentWindow :
         futures[p].st = "http" /\ futures[p].since = watermark

(***************************************************************************)
(* C35: the k-th batch of a run (k from 0) requests exactly the pages      *)
(* 1 + k*STEP_SIZE .. (k+1)*STEP_SIZE: the windows start at page 1, are    *)
(* contiguous and disjoint, so the pages requested so far are 1 up to the  *)
(* end of the latest window, the pages of the window about to be launched  *)
(* have not been requested, and a Failed page is not requested again.      *)
(***************************************************************************)
C35_WindowsContiguousAndDisjoint ==
    pc \notin {"idle"} =>
        /\ (current_start_page - 1) % STEP_SIZE = 0
        /\ Requested = IF pc = "launch"
                       THEN 1..(current_start_page - 1)
                       ELSE 1..(current_start_page + STEP_SIZE - 1)
        /\ pending \subseteq PagesToFetch(current_start_page)
        /\ \A p \in Pages :
             futures[p].st \in {"queued", "http", "sleep"}
                 => p \in PagesToFetch(current_start_page)

\* The second window is in progress after a page of the first one Failed,
\* and that page has not been queued again.
C35_Witness ==
    /\ pc = "await"
    /\ current_start_page = 1 + STEP_SIZE
    /\ \E p \in PagesToFetch(1) : SettledFailed(p)
    /\ \E p \in PagesToFetch(current_start_page) : futures[p].st = "http"

(***************************************************************************)
(* C36: the Watermark Store is written only by the controller and only     *)
(* between batches: when save_last_sync_time has been called since the     *)
(* launch of a batch, or the stored object differs from the one at the     *)
(* launch, the controller is past the barrier and no page fetch is queued, *)
(* running or sleeping; a step of a worker is never a write.               *)
(***************************************************************************)
C36_StoreWrittenBetweenBatchesOnly ==
    (lastCall # <<>> \/ stateObject # atLaunch.store) =>
        /\ pc \in {"check", "launch", "final", "returned"}
        /\ pending = {}
        /\ \A p \in Pages : futures[p].st \in {"none", "done"}

\* The store has just been written by the commit of a batch one of whose
\* fetches had slept in backoff.
C36_Witness ==
    /\ pc = "check"
    /\ lastCall # <<>>
    /\ ~lastCall[1].fails
    /\ stateObject # atLaunch.store
    /\ transient > 0

(***************************************************************************)
(* C37: while the fetch of one page sleeps in backoff, the other pages of  *)
(* the batch can still run and settle (a queued one can be started, the    *)
(* request of a running one can be answered, a settled one can be          *)
(* yielded), and the controller stays at the barrier of the batch until    *)
(* the sleeping task itself has settled.                                   *)
(***************************************************************************)
C37_SleepingTaskBlocksOnlyItsSlot ==
    \A p \in Pages :
        futures[p].st = "sleep" =>
            /\ pc = "await"
            /\ p \in pending
            /\ p \in PagesToFetch(current_start_page)
            /\ \A q \in PagesToFetch(current_start_page) \ {p} :
                 /\ futures[q].st = "queued" => ENABLED TaskStart(q)
                 /\ futures[q].st = "http" => ENABLED UpstreamAnswers(q)
                 /\ (futures[q].st = "done" /\ q \in pending)
                        => ENABLED Collect(q)

\* One page sleeps while a sibling has settled and been yielded and another
\* sibling has its request in flight.
C37_Witness ==
    /\ pc = "await"
    /\ \E p, q, r \in PagesToFetch(current_start_page) :
         /\ futures[p].st = "sleep"
         /\ futures[q].st = "done" /\ q \notin pending
         /\ futures[r].st = "http"

(***************************************************************************)
(* C38: on loop exit save_last_sync_time is called if and only if          *)
(* global_max_timestamp is strictly greater than the watermark read at run *)
(* start, it is called with exactly global_max_timestamp, and when the     *)
(* latest save of a batch succeeded the stored object is the same before   *)
(* and after it.                                                           *)
(***************************************************************************)
C38_FinalCommitIffAdvancedAndIdempotent ==
    [][(pc = "final" /\ pc' # "final") =>
         /\ global_max_timestamp > watermark =>
              \E putFails \in BOOLEAN :
                  /\ lastCall' = <<SaveCall(stateObject, global_max_timestamp,
                                            putFails)>>
                  /\ stateObject' = IF putFails THEN stateObject
                                    ELSE <<global_max_timestamp>>
         /\ ~(global_max_timestamp > watermark) =>
              /\ lastCall' = <<>>
              /\ stateObject' = stateObject
         /\ lastCommit = <<TRUE>> => stateObject' = stateObject]_vars

\* The final commit was performed and succeeded after the save of an
\* earlier batch had succeeded and a later batch was flushed without a
\* commit: the store holds what it held before.
C38_Witness ==
    /\ pc = "returned"
    /\ Called("save_last_sync_time")
    /\ lastCall[1].ret
    /\ lastCall[1].arg = result.final_watermark
    /\ lastCall[1].before = stateObject
    /\ lastCommit = <<TRUE>>
    /\ sinceCommit > 0

\* The lists a run has collected and passed to flush_buffer_to_csv.
Collected == UNION {flushCalls[i].arg : i \in DOMAIN flushCalls}

\* Every page of the first batch settled as EndOfData.
FirstBatchOnlyEndOfData ==
    \A p \in PagesToFetch(1) : futures[p] = Settled(EmptyList)

(***************************************************************************)
(* C39: a run in which no collected record has updated_at strictly greater *)
(* than the watermark read at run start calls save_last_sync_time neither  *)
(* for a batch nor on exit, leaves the store as it was and returns         *)
(* final_watermark = that watermark; a run whose first batch returns only  *)
(* EndOfData also calls no flush, writes nothing to the sink and returns   *)
(* total_saved = 0.                                                        *)
(***************************************************************************)
C39_NothingNewNothingWritten ==
    pc = "returned" =>
        /\ (\A x \in Collected : x.ts <= watermark) =>
              /\ lastCommit = <<>>
              /\ lastCall = <<>>
              /\ Persisted = atStart
              /\ result.final_watermark = watermark
        /\ FirstBatchOnlyEndOfData =>
              /\ current_start_page = 1
              /\ \A x \in Collected : x.ts <= watermark
              /\ flushCalls = <<>>
              /\ sink = {}
              /\ batch_file_counter = 0
              /\ result.total_saved = 0

\* A run that started from a stored watermark collected and flushed records,
\* none of them newer than the watermark, and returned.
C39_Witness ==
    /\ pc = "returned"
    /\ watermark > DEFAULT_START_DATE
    /\ Collected # {}
    /\ \A x \in Collected : x.ts <= watermark
    /\ result.total_saved > 0
    /\ result.final_watermark = watermark

====
